---- MODULE Spec2Model ----
(***************************************************************************)
(* Leave-one-out authorship verification harness (src/src/main.py) with    *)
(* the corpus loader it calls (src/src/data/data_loader.py).               *)
(*                                                                         *)
(* Strings are sequences of one-character strings, so that Python's        *)
(* substring test, find, endswith and slicing are computed, not assumed.   *)
(* Python indices are 0-based; sequences here are 1-based, so the model's  *)
(* index i stands for Python's i-1.                                        *)
(***************************************************************************)
EXTENDS Integers, Sequences, FiniteSets, TLC

VARIABLES
    argv,              \* command line: which options are given, and their values
    disk,              \* the corpus directory: files in os.listdir order
    pc,                \* position of the process: main, loop, unit, done, aborted
    target,            \* run(target, ...)
    test_document,     \* run(..., test_document, ...)
    documents,         \* run: documents
    authors,           \* run: authors
    filenames,         \* run: filenames (with the '_0' suffix)
    y,                 \* run: binary labels
    processed_documents, \* run: the annotation store (its keys)
    test_indices,      \* run: indices of the held-out units
    k,                 \* position of the for loop in test_indices
    stage,             \* next stage of the current unit
    unit,              \* locals of _process_single_document
    accuracy,          \* self.accuracy
    posterior_proba,   \* self.posterior_proba
    file,              \* rows of clf_res.csv
    started,           \* history: indices whose unit was entered, in order
    trace,             \* history: stages completed by the current unit
    evaluated,         \* history: what evaluate_model returned, per unit
    calls,             \* history: the rows handed to save_results, in call order
    fsets,             \* input of _compute_feature_set_idx: per-view matrices
    idxs,              \* output of _compute_feature_set_idx
    segs,              \* input of get_processed_segments: the store, X and groups
    found,             \* output of get_processed_segments, with its lookups
    nlp_calls,         \* history: calls of the annotation service
    rng                \* the state of numpy's global random generator

vars == <<argv, disk, pc, target, test_document, documents, authors, filenames,
          y, processed_documents, test_indices, k, stage, unit, accuracy,
          posterior_proba, file, started, trace, evaluated, calls, fsets, idxs,
          segs, found, nlp_calls, rng>>

runVars == <<argv, disk, pc, target, test_document, documents, authors,
             filenames, y, processed_documents, test_indices, k, stage, unit,
             accuracy, posterior_proba, started, trace, evaluated, nlp_calls,
             rng>>

idxVars == <<fsets, idxs>>

segVars == <<segs, found>>

-----------------------------------------------------------------------------
(* Bounds of the model *)

MaxDocs == 3

MaxCols == 2

MaxCalls == 4

MaxSyn == 1

MaxRuns == 2

IdxRows == 2

MaxSegs == 2

-----------------------------------------------------------------------------
(* Python string and list primitives *)

Range(s) == {s[j] : j \in 1..Len(s)}

\* s in t
IsSubstring(s, t) ==
    \E j \in 0..(Len(t) - Len(s)) : SubSeq(t, j + 1, j + Len(s)) = s

\* t.endswith(s)
EndsWith(t, s) ==
    /\ Len(s) <= Len(t)
    /\ SubSeq(t, Len(t) - Len(s) + 1, Len(t)) = s

\* t[:-n]
DropLast(t, n) == SubSeq(t, 1, Len(t) - n)

\* s with the first element equal to s[i] removed
np_delete_by_value(s, i) ==
    LET first == CHOOSE j \in 1..Len(s) :
                     s[j] = s[i] /\ \A h \in 1..(j - 1) : s[h] # s[i]
    IN  SubSeq(s, 1, first - 1) \o SubSeq(s, first + 1, Len(s))

\* np.delete(s, i), i the 1-based position
np_delete(s, i) == SubSeq(s, 1, i - 1) \o SubSeq(s, i + 1, Len(s))

\* [i for i in range(n) if i in S], order kept
SelectIdx(n, S) == SelectSeq([j \in 1..n |-> j], LAMBDA j : j \in S)

\* t.find(s): the 0-based offset of the first occurrence, -1 when there is none
Find(t, s) ==
    LET hits == {j \in 0..(Len(t) - Len(s)) : SubSeq(t, j + 1, j + Len(s)) = s}
    IN  IF hits = {} THEN -1
        ELSE CHOOSE j \in hits : \A h \in hits : j <= h

RECURSIVE SumSeq(_)
SumSeq(s) == IF s = <<>> THEN 0 ELSE s[1] + SumSeq(Tail(s))

\* [x] * n
RECURSIVE Repeat(_, _)
Repeat(s, n) == IF n <= 0 THEN <<>> ELSE s \o Repeat(s, n - 1)

Absent == <<"absent">>

-----------------------------------------------------------------------------
(* The corpus directory.  A file name is '<author>-<textname>'; the letter *)
(* "q" in a text name stands for the word ' quaestio'.  A text is the      *)
(* sequence of its characters, "." ending a sentence.                      *)

Dante == <<"D">>

Guido == <<"G">>

DanteQuaestio == <<"D", "-", "q">>

Short == <<"a", ".">>

Long == <<"a", ".", "b", ".">>

FilePool ==
    { [name |-> <<"D", "-", "e">>,      text |-> Short],
      [name |-> <<"D", "-", "e", "e">>, text |-> Long],
      [name |-> <<"G", "-", "e">>,      text |-> Long],
      [name |-> DanteQuaestio,          text |-> Short] }

RECURSIVE Listings(_)
Listings(n) ==
    IF n = 0 THEN {<<>>}
    ELSE LET shorter == Listings(n - 1)
         IN  shorter \cup
             { Append(l, f) : l \in {s \in shorter : Len(s) = n - 1},
                              f \in FilePool }

Distinct(l) == \A a, b \in 1..Len(l) : l[a].name = l[b].name => a = b

Disks == {l \in Listings(MaxDocs) : Len(l) >= 1 /\ Distinct(l)}

TargetArgs == {Absent, Dante, Guido}

DocumentArgs == {Absent, <<>>, <<"D", "-", "e">>, Guido}

-----------------------------------------------------------------------------
(* data_loader.load_corpus and AuthorshipVerification.load_dataset *)

Quaestio == <<"q">>

Epistola == <<"e">>

\* author, textname = file_name.split('-'); author.strip()
AuthorOf(name) == SubSeq(name, 1, Find(name, <<"-">>))

\* the files load_corpus keeps, in listing order
load_corpus(listing, remove_test) ==
    SelectSeq(listing,
              LAMBDA f : ~(remove_test /\ IsSubstring(Quaestio, f.name)))

load_dataset(listing, testdoc) ==
    LET kept == load_corpus(listing, testdoc # DanteQuaestio)
    IN  [documents |-> [j \in 1..Len(kept) |-> kept[j].text],
         authors   |-> [j \in 1..Len(kept) |-> AuthorOf(kept[j].name)],
         filenames |-> [j \in 1..Len(kept) |-> kept[j].name]]

-----------------------------------------------------------------------------
(* ModelConfig *)

oversample == TRUE

save_res == TRUE

test_genre == FALSE

random_state == 0

\* numpy's global generator before any np.random.seed
Unseeded == -1

\* ModelConfig.from_args: (target, test_document)
from_args(args) ==
    LET t == IF args.target = Absent THEN Dante ELSE args.target
        d == IF args.test_document = Absent THEN DanteQuaestio
             ELSE args.test_document
    IN  [target |-> t,
         test_document |->
             IF args.target # Absent /\ args.test_document = Absent
             THEN <<>> ELSE d]

-----------------------------------------------------------------------------
(* AuthorshipVerification.run, up to the loop *)

Suffix0 == <<"_", "0">>

\* a processed document: the annotation of one text
Doc(key, text) == [key |-> key, text |-> text]

\* the annotation store: one processed document per document id, the id
\* being the file name without the '_0' that run appended
get_processed_documents(docs, names) ==
    LET ids == {DropLast(names[j], 2) : j \in 1..Len(names)}
        last(id) == CHOOSE j \in 1..Len(names) :
                        /\ DropLast(names[j], 2) = id
                        /\ \A h \in (j + 1)..Len(names) :
                               DropLast(names[h], 2) # id
    IN  [id \in ids |-> Doc(id, docs[last(id)])]

Labels(auths, names, tgt) ==
    IF test_genre
    THEN [j \in 1..Len(names) |->
             IF IsSubstring(Epistola, names[j]) THEN 1 ELSE 0]
    ELSE [j \in 1..Len(auths) |-> IF auths[j] = tgt THEN 1 ELSE 0]

\* every document is held out, whatever its author
TestIndicesAnyAuthor(names, auths, tgt, testdoc) ==
    IF testdoc # <<>>
    THEN SelectIdx(Len(names),
                   {j \in 1..Len(names) : IsSubstring(testdoc, names[j])})
    ELSE SelectIdx(Len(names), 1..Len(names))

TestIndices(names, auths, tgt, testdoc) ==
    IF testdoc # <<>>
    THEN SelectIdx(Len(names),
                   {j \in 1..Len(names) : IsSubstring(testdoc, names[j])})
    ELSE SelectIdx(Len(names), {j \in 1..Len(names) : auths[j] = tgt})

NoUnit ==
    [i |-> 0, X_dev |-> <<>>, X_test |-> <<>>, y_dev |-> <<>>, y_test |-> <<>>,
     groups_dev |-> <<>>, groups_test |-> <<>>, X_test_frag |-> <<>>,
     y_test_frag |-> <<>>, groups_test_frag |-> <<>>,
     X_test_frag_processed |-> <<>>, feature_idxs |-> <<>>,
     view_rows |-> <<>>, folds |-> <<>>,
     acc |-> <<0, 1>>, posterior_proba |-> 0]

Main ==
    /\ pc = "main"
    /\ LET cfg == from_args(argv)
           ds == load_dataset(disk, cfg.test_document)
           names == [j \in 1..Len(ds.filenames) |-> ds.filenames[j] \o Suffix0]
       IN  /\ target' = cfg.target
           /\ test_document' = cfg.test_document
           /\ documents' = ds.documents
           /\ authors' = ds.authors
           /\ filenames' = names
           /\ processed_documents' = get_processed_documents(ds.documents, names)
           /\ y' = Labels(ds.authors, names, cfg.target)
           /\ test_indices' =
                  TestIndices(names, ds.authors, cfg.target, cfg.test_document)
           \* get_processed_documents: max() of an empty sequence raises,
           \* before the documents are handed to the annotation service
           /\ pc' = IF Len(ds.documents) = 0 THEN "aborted" ELSE "loop"
           /\ nlp_calls' = IF Len(ds.documents) = 0 THEN nlp_calls
                            ELSE nlp_calls + 1
    /\ k' = 1
    /\ UNCHANGED <<argv, disk, stage, unit, accuracy, posterior_proba, file,
                   started, trace, evaluated, calls, fsets, idxs,
                   segs, found, rng>>

\* the unit annotates the documents again when it starts
LoopStepAnnotating ==
    /\ pc = "loop"
    /\ k <= Len(test_indices)
    /\ pc' = "unit"
    /\ stage' = "SPLIT"
    /\ unit' = [NoUnit EXCEPT !.i = test_indices[k]]
    /\ started' = Append(started, test_indices[k])
    /\ trace' = <<>>
    /\ rng' = random_state
    /\ processed_documents' = get_processed_documents(documents, filenames)
    /\ nlp_calls' = nlp_calls + 1
    /\ UNCHANGED <<argv, disk, target, test_document, documents, authors,
                   filenames, y, test_indices, k, accuracy, posterior_proba,
                   file, evaluated, calls, fsets, idxs, segs, found>>

\* the unit starts without np.random.seed
LoopStepUnseeded ==
    /\ pc = "loop"
    /\ k <= Len(test_indices)
    /\ pc' = "unit"
    /\ stage' = "SPLIT"
    /\ unit' = [NoUnit EXCEPT !.i = test_indices[k]]
    /\ started' = Append(started, test_indices[k])
    /\ trace' = <<>>
    /\ UNCHANGED <<argv, disk, target, test_document, documents, authors,
                   filenames, y, processed_documents, test_indices, k, accuracy,
                   posterior_proba, file, evaluated, calls, fsets, idxs,
                   segs, found, nlp_calls, rng>>

\* for i in test_indices: self._process_single_document(i, ...), up to
\* np.random.seed(self.config.random_state)
LoopStep ==
    /\ pc = "loop"
    /\ k <= Len(test_indices)
    /\ pc' = "unit"
    /\ stage' = "SPLIT"
    /\ unit' = [NoUnit EXCEPT !.i = test_indices[k]]
    /\ started' = Append(started, test_indices[k])
    /\ trace' = <<>>
    /\ rng' = random_state
    /\ UNCHANGED <<argv, disk, target, test_document, documents, authors,
                   filenames, y, processed_documents, test_indices, k, accuracy,
                   posterior_proba, file, evaluated, calls, fsets, idxs,
                   segs, found, nlp_calls>>

\* the loop is exhausted: run returns
RunEnd ==
    /\ pc = "loop"
    /\ k > Len(test_indices)
    /\ pc' = "done"
    /\ UNCHANGED <<argv, disk, target, test_document, documents, authors,
                   filenames, y, processed_documents, test_indices, k, stage,
                   unit, accuracy, posterior_proba, file, started, trace,
                   evaluated, calls, fsets, idxs,
                   segs, found, nlp_calls, rng>>

-----------------------------------------------------------------------------
(* _process_single_document *)

\* loo_split(i, X, y, doc, ylabel, filenames)
loo_split(i, X, labels, doc, ylabel, names) ==
    [X_dev       |-> np_delete(X, i),
     X_test      |-> <<doc>>,
     y_dev       |-> np_delete(labels, i),
     y_test      |-> <<ylabel>>,
     groups_dev  |-> np_delete(names, i),
     groups_test |-> <<names[i]>>]

UnitUnchanged ==
    UNCHANGED <<argv, disk, pc, target, test_document, documents, authors,
                filenames, y, processed_documents, test_indices, k, started,
                calls, fsets, idxs, segs, found, nlp_calls, rng>>

Split ==
    /\ pc = "unit"
    /\ stage = "SPLIT"
    /\ LET i == unit.i
           r == loo_split(i, documents, y, documents[i], y[i], filenames)
       IN  unit' = [unit EXCEPT !.X_dev = r.X_dev, !.X_test = r.X_test,
                                !.y_dev = r.y_dev, !.y_test = r.y_test,
                                !.groups_dev = r.groups_dev,
                                !.groups_test = r.groups_test]
    /\ stage' = "SEGMENT"
    /\ trace' = Append(trace, "SPLIT")
    /\ UnitUnchanged
    /\ UNCHANGED <<accuracy, posterior_proba, file, evaluated>>

-----------------------------------------------------------------------------
(* Segmentation: whole documents first, then the fragments of the          *)
(* documents that split; a text of several sentences splits into its       *)
(* sentences.  A whole document's group is its file name with '_0'         *)
(* appended, a fragment's is the file name with '_<piece>' appended        *)
(* (piece >= 1).                                                           *)

\* the sentences of a text, in order; a tail without "." is a sentence
RECURSIVE Sentences(_)
Sentences(text) ==
    IF text = <<>> THEN <<>>
    ELSE LET dot == Find(text, <<".">>)
         IN  IF dot < 0 THEN <<text>>
             ELSE <<SubSeq(text, 1, dot + 1)>>
                  \o Sentences(SubSeq(text, dot + 2, Len(text)))

Pieces(text) == Len(Sentences(text))

Digit(j) == <<"1", "2", "3", "4", "5", "6", "7", "8", "9">>[j]

RECURSIVE Flatten(_)
Flatten(ss) == IF ss = <<>> THEN <<>> ELSE ss[1] \o Flatten(Tail(ss))

FragmentsOf(doc, lab, name) ==
    IF Pieces(doc) < 2 THEN <<>>
    ELSE [p \in 1..Pieces(doc) |->
             [sample |-> Sentences(doc)[p],
              label  |-> lab,
              group  |-> name \o <<"_", Digit(p)>>]]

Segmentation(docs, labs, names) ==
    LET n == Len(docs)
        whole == [j \in 1..n |->
                     [sample |-> docs[j],
                      label  |-> labs[j],
                      group  |-> names[j] \o Suffix0]]
        all == whole \o
               Flatten([j \in 1..n |-> FragmentsOf(docs[j], labs[j], names[j])])
    IN  [docs   |-> [j \in 1..Len(all) |-> all[j].sample],
         labels |-> [j \in 1..Len(all) |-> all[j].label],
         groups |-> [j \in 1..Len(all) |-> all[j].group]]

\* segment_data(X_dev, X_test, y_dev, y_test, groups_dev, groups_test)
segment_data(X_dev, X_test, y_dev, y_test, groups_dev, groups_test) ==
    LET whole_docs_len == Len(y_test)
        dev == Segmentation(X_dev, y_dev, groups_dev)
        tst == Segmentation(X_test, y_test, groups_test)
        m == Len(tst.docs)
    IN  [X_dev       |-> dev.docs,
         X_test      |-> SubSeq(tst.docs, 1, whole_docs_len),
         y_dev       |-> dev.labels,
         y_test      |-> SubSeq(tst.labels, 1, whole_docs_len),
         X_test_frag |-> SubSeq(tst.docs, whole_docs_len + 1, m),
         y_test_frag |-> SubSeq(tst.labels, whole_docs_len + 1, m),
         groups_dev  |-> dev.groups,
         groups_test |-> SubSeq(tst.groups, 1, whole_docs_len),
         groups_test_frag |-> SubSeq(tst.groups, whole_docs_len + 1, m)]

Segment ==
    /\ pc = "unit"
    /\ stage = "SEGMENT"
    /\ LET r == segment_data(unit.X_dev, unit.X_test, unit.y_dev, unit.y_test,
                             unit.groups_dev, unit.groups_test)
       IN  unit' = [unit EXCEPT !.X_dev = r.X_dev, !.X_test = r.X_test,
                                !.y_dev = r.y_dev, !.y_test = r.y_test,
                                !.X_test_frag = r.X_test_frag,
                                !.y_test_frag = r.y_test_frag,
                                !.groups_dev = r.groups_dev,
                                !.groups_test = r.groups_test,
                                !.groups_test_frag = r.groups_test_frag]
    /\ stage' = "EXTRACT"
    /\ trace' = Append(trace, "SEGMENT")
    /\ UnitUnchanged
    /\ UNCHANGED <<accuracy, posterior_proba, file, evaluated>>

-----------------------------------------------------------------------------
(* get_processed_segments and find_segment.  Every character of a          *)
(* processed document is a token, so a span is its character range.        *)

WholeSuffix == <<"_", "0", "_", "0">>

\* t[:idx], idx as Python takes it (a negative idx counts from the end)
SliceTo(t, idx) ==
    IF idx >= 0 THEN SubSeq(t, 1, idx) ELSE SubSeq(t, 1, Len(t) + idx)

\* the key under which get_processed_segments looks a group up
GroupKey(group) ==
    IF EndsWith(group, WholeSuffix) THEN DropLast(group, 4)
    ELSE SliceTo(group, Find(group, Suffix0))

None == [kind |-> "none", key |-> <<>>, start |-> 0, end |-> 0]

\* a span of a processed document: characters start_idx .. end_idx - 1
Span(processed_document, start_idx, end_idx) ==
    [kind |-> "span", key |-> processed_document.key,
     start |-> start_idx, end |-> end_idx]

\* a processed document as a row
Whole(processed_document) ==
    [kind |-> "doc", key |-> processed_document.key,
     start |-> 0, end |-> Len(processed_document.text)]

\* Doc.char_span(start_idx, end_idx, alignment_mode='expand'): None when the
\* first or the last character of the range is not a character of the text
char_span(processed_document, start_idx, end_idx) ==
    LET inside(c) == 0 <= c /\ c < Len(processed_document.text)
    IN  IF inside(start_idx) /\ inside(end_idx - 1)
        THEN Span(processed_document, start_idx, end_idx)
        ELSE None

\* sent_tokenize(segment)[0], segment not empty
FirstSentence(segment) == Sentences(segment)[1]

\* the single lookup, without the retry
find_segment_no_retry(segment, processed_document) ==
    LET start_idx == Find(processed_document.text, FirstSentence(segment))
    IN  char_span(processed_document, start_idx, start_idx + Len(segment))

find_segment(segment, processed_document) ==
    LET start_segment == FirstSentence(segment)
        start_idx == Find(processed_document.text, start_segment)
        end_idx == start_idx + Len(segment)
        processed_seg == char_span(processed_document, start_idx, end_idx)
    IN  IF processed_seg = None
        THEN char_span(processed_document, start_idx, end_idx - 1)
        ELSE processed_seg

\* the char_span calls find_segment makes, as <<start, end>>, in call order
find_segment_lookups(segment, processed_document) ==
    LET start_idx == Find(processed_document.text, FirstSentence(segment))
        end_idx == start_idx + Len(segment)
    IN  IF char_span(processed_document, start_idx, end_idx) = None
        THEN <<<<start_idx, end_idx>>, <<start_idx, end_idx - 1>>>>
        ELSE <<<<start_idx, end_idx>>>>

NoSegs == [processed_docs |-> <<>>, X |-> <<>>, groups |-> <<>>, ids |-> <<>>]

NoFound == [processed_X |-> <<>>, none_count |-> 0, lookups |-> <<>>,
            raised |-> FALSE]

\* a fragment that is not located is left out of the list
RECURSIVE SegLoopDropping(_, _, _, _, _)
SegLoopDropping(processed_docs, X, groups, j, acc) ==
    IF j > Len(X) \/ j > Len(groups) THEN acc
    ELSE LET group == groups[j]
             key == GroupKey(group)
         IN  IF key \notin DOMAIN processed_docs
             THEN [acc EXCEPT !.raised = TRUE]
             ELSE IF EndsWith(group, WholeSuffix)
             THEN SegLoopDropping(processed_docs, X, groups, j + 1,
                      [acc EXCEPT !.processed_X =
                                      Append(@, Whole(processed_docs[key]))])
             ELSE LET processed_segment ==
                          find_segment(X[j], processed_docs[key])
                      calls_made ==
                          find_segment_lookups(X[j], processed_docs[key])
                  IN  SegLoopDropping(processed_docs, X, groups, j + 1,
                          [acc EXCEPT
                              !.processed_X =
                                  IF processed_segment = None THEN @
                                  ELSE Append(@, processed_segment),
                              !.none_count =
                                  IF processed_segment = None THEN @ + 1 ELSE @,
                              !.lookups = Append(@, calls_made)])

get_processed_segments_dropping(processed_docs, X, groups) ==
    SegLoopDropping(processed_docs, X, groups, 1, NoFound)

\* for segment, group in zip(X, groups): ...; processed_docs[key] raises
\* KeyError for a key the store does not hold
RECURSIVE SegLoop(_, _, _, _, _)
SegLoop(processed_docs, X, groups, j, acc) ==
    IF j > Len(X) \/ j > Len(groups) THEN acc
    ELSE LET group == groups[j]
             key == GroupKey(group)
         IN  IF key \notin DOMAIN processed_docs
             THEN [acc EXCEPT !.raised = TRUE]
             ELSE IF EndsWith(group, WholeSuffix)
             THEN SegLoop(processed_docs, X, groups, j + 1,
                      [acc EXCEPT !.processed_X =
                                      Append(@, Whole(processed_docs[key]))])
             ELSE LET processed_segment ==
                          find_segment(X[j], processed_docs[key])
                      calls_made ==
                          find_segment_lookups(X[j], processed_docs[key])
                  IN  SegLoop(processed_docs, X, groups, j + 1,
                          [acc EXCEPT
                              !.processed_X = Append(@, processed_segment),
                              !.none_count =
                                  IF processed_segment = None THEN @ + 1 ELSE @,
                              !.lookups = Append(@, calls_made)])

\* the list returned, the count printed, the lookups made; raised when a
\* KeyError ended the call
get_processed_segments(processed_docs, X, groups) ==
    SegLoop(processed_docs, X, groups, 1, NoFound)

\* no lookup of the store raises KeyError
KeysFound(pdocs, groups) ==
    \A j \in 1..Len(groups) : GroupKey(groups[j]) \in DOMAIN pdocs

-----------------------------------------------------------------------------
(* Feature extraction.  A per-view matrix is its shape: <<rows>> when      *)
(* one-dimensional, <<rows, columns>> otherwise.  A stacked matrix is its  *)
(* rows (the samples they come from) and its column count.                 *)

Vectorizers ==
    <<"FunctionWords", "POST", "Mendenhall", "SentenceLength", "CharNGram">>

Flat == -1

Shape(rows, c) == IF c = Flat THEN <<rows>> ELSE <<rows, c>>

\* fset.reshape(-1, 1) when one-dimensional; fset.shape[1]
FeatureShape(fset) == IF Len(fset) = 1 THEN 1 ELSE fset[2]

\* feature_sets_idxs[vect] = (start_idx, end_idx) on an insertion-ordered dict
DictSet(d, key, val) ==
    IF \E j \in 1..Len(d) : d[j].key = key
    THEN [j \in 1..Len(d) |-> IF d[j].key = key THEN [key |-> key, val |-> val]
                                ELSE d[j]]
    ELSE Append(d, [key |-> key, val |-> val])

RECURSIVE IdxLoop(_, _, _, _, _, _)
IdxLoop(vectorizers, feature_sets, j, start_idx, end_idx, acc) ==
    IF j > Len(vectorizers) \/ j > Len(feature_sets) THEN acc
    ELSE LET end2 == end_idx + FeatureShape(feature_sets[j])
         IN  IdxLoop(vectorizers, feature_sets, j + 1, end2, end2,
                     DictSet(acc, vectorizers[j], <<start_idx, end2>>))

\* start_idx is never advanced
RECURSIVE IdxLoopStartStuck(_, _, _, _, _)
IdxLoopStartStuck(vectorizers, feature_sets, j, end_idx, acc) ==
    IF j > Len(vectorizers) \/ j > Len(feature_sets) THEN acc
    ELSE LET end2 == end_idx + FeatureShape(feature_sets[j])
         IN  IdxLoopStartStuck(vectorizers, feature_sets, j + 1, end2,
                               DictSet(acc, vectorizers[j], <<0, end2>>))

compute_feature_set_idx_start_stuck(vectorizers, feature_sets) ==
    IdxLoopStartStuck(vectorizers, feature_sets, 1, 0, <<>>)

_compute_feature_set_idx(vectorizers, feature_sets) ==
    IdxLoop(vectorizers, feature_sets, 1, 0, 0, <<>>)

\* HstackFeatureSet._hstack: the column count of the stacked matrix
_hstack(feature_sets) ==
    SumSeq([j \in 1..Len(feature_sets) |->
               IF Len(feature_sets[j]) = 1 THEN 1 ELSE feature_sets[j][2]])

Count(s, v) == Cardinality({j \in 1..Len(s) : s[j] = v})

MinorityLabel(labels) == IF Count(labels, 1) <= Count(labels, 0) THEN 1 ELSE 0

\* FeatureSetReductor.oversample_DRO adding nSyn synthetic rows, drawn with
\* the global generator in state gen
oversample_DRO(Xtr, ytr, Xte, yte, groups, nSyn, gen) ==
    [Xtr    |-> Xtr \o [n \in 1..nSyn |->
                           [kind |-> "syn", key |-> <<"#">>,
                            start |-> gen, end |-> n]],
     ytr    |-> ytr \o [n \in 1..nSyn |-> MinorityLabel(ytr)],
     Xte    |-> Xte,
     yte    |-> yte,
     groups |-> groups \o [n \in 1..nSyn |-> <<"#", Digit(n)>>]]

\* HstackFeatureSet._hstack fails unless the matrices have one row count
SameRows(feature_sets) ==
    \A a, b \in 1..Len(feature_sets) : feature_sets[a][1] = feature_sets[b][1]

RECURSIVE Min(_)
Min(s) == IF Len(s) = 1 THEN s[1]
          ELSE LET m == Min(Tail(s)) IN IF s[1] <= m THEN s[1] ELSE m

\* the oversampling call of view v: each call is handed the rows of the view,
\* the labels and the original groups; the generator has served the calls of
\* the views before v
ViewOver(pdev, ptest, y_dev, y_test, groups_dev, nSyn, gen, v) ==
    oversample_DRO(pdev, y_dev, ptest, y_test, groups_dev, nSyn[v],
                   gen + SumSeq(SubSeq(nSyn, 1, v - 1)))

\* the views are cut to the rows they all have, instead of failing
extract_feature_vectors_truncating(pdev, ptest, y_dev, y_test, groups_dev, cols, nSyn, gen) ==
    LET views == 1..Len(Vectorizers)
        last == ViewOver(pdev, ptest, y_dev, y_test, groups_dev, nSyn, gen,
                         Len(Vectorizers))
        view_rows == [v \in views |->
                         Len(ViewOver(pdev, ptest, y_dev, y_test, groups_dev,
                                      nSyn, gen, v).Xtr)]
        feature_sets_dev == [v \in views |-> Shape(Min(view_rows), cols[v])]
        feature_sets_test == [v \in views |-> Shape(Len(last.Xte), cols[v])]
    IN  [raised |-> FALSE,
         view_rows |-> view_rows,
         X_dev  |-> [rows |-> SubSeq(last.Xtr, 1, Min(view_rows)),
                     cols |-> _hstack(feature_sets_dev)],
         X_test |-> [rows |-> last.Xte, cols |-> _hstack(feature_sets_test)],
         y_dev  |-> last.ytr,
         y_test |-> last.yte,
         groups_dev |-> last.groups,
         feature_idxs |-> _compute_feature_set_idx(Vectorizers, feature_sets_dev),
         orig_feature_idxs |-> <<>>]

\* extract_feature_vectors; cols: the column count of each view, nSyn: the
\* number of rows the oversampling of each view adds, gen: the state of the
\* global generator at the call.  Labels and groups are those of the last
\* view's oversampling call; raised when a stacking fails.
extract_feature_vectors(pdev, ptest, y_dev, y_test, groups_dev, cols, nSyn, gen) ==
    LET views == 1..Len(Vectorizers)
        over(v) == ViewOver(pdev, ptest, y_dev, y_test, groups_dev, nSyn, gen, v)
        last == over(Len(Vectorizers))
        feature_sets_dev_orig ==
            IF oversample THEN [v \in views |-> Shape(Len(pdev), cols[v])]
            ELSE <<>>
        feature_sets_dev ==
            IF oversample THEN [v \in views |-> Shape(Len(over(v).Xtr), cols[v])]
            ELSE [v \in views |-> Shape(Len(pdev), cols[v])]
        feature_sets_test ==
            IF oversample THEN [v \in views |-> Shape(Len(over(v).Xte), cols[v])]
            ELSE [v \in views |-> Shape(Len(ptest), cols[v])]
    IN  [raised |-> ~(SameRows(feature_sets_dev) /\ SameRows(feature_sets_test)),
         view_rows |-> [v \in views |-> feature_sets_dev[v][1]],
         X_dev  |-> [rows |-> IF oversample THEN last.Xtr ELSE pdev,
                     cols |-> _hstack(feature_sets_dev)],
         X_test |-> [rows |-> IF oversample THEN last.Xte ELSE ptest,
                     cols |-> _hstack(feature_sets_test)],
         y_dev  |-> IF oversample THEN last.ytr ELSE y_dev,
         y_test |-> IF oversample THEN last.yte ELSE y_test,
         groups_dev |-> IF oversample THEN last.groups ELSE groups_dev,
         feature_idxs |-> _compute_feature_set_idx(Vectorizers, feature_sets_dev),
         orig_feature_idxs |->
             _compute_feature_set_idx(Vectorizers, feature_sets_dev_orig)]

ColumnProfiles == {<<1, 1, 1, 1, 1>>, <<2, 0, 1, Flat, 2>>}

\* the rows each view's oversampling may add: none when the training set has
\* no row of the minority class; otherwise one number for the last view,
\* whose call gives the labels and groups, and one for the views before it
SynChoices(y_dev) ==
    IF Count(y_dev, MinorityLabel(y_dev)) = 0
    THEN {[v \in 1..Len(Vectorizers) |-> 0]}
    ELSE {[v \in 1..Len(Vectorizers) |->
              IF v = Len(Vectorizers) THEN last ELSE before] :
                  before \in 0..MaxSyn, last \in 0..MaxSyn}

\* the three get_processed_segments calls and extract_feature_vectors; an
\* exception of the stacking ends the run
Extract ==
    /\ pc = "unit"
    /\ stage = "EXTRACT"
    /\ KeysFound(processed_documents, unit.groups_dev)
    /\ KeysFound(processed_documents, unit.groups_test)
    /\ KeysFound(processed_documents, unit.groups_test_frag)
    /\ LET X_dev_processed ==
               get_processed_segments(processed_documents, unit.X_dev,
                                      unit.groups_dev).processed_X
           X_test_processed ==
               get_processed_segments(processed_documents, unit.X_test,
                                      unit.groups_test).processed_X
           X_test_frag_processed ==
               get_processed_segments(processed_documents, unit.X_test_frag,
                                      unit.groups_test_frag).processed_X
       IN
       \E cols \in ColumnProfiles, nSyn \in SynChoices(unit.y_dev) :
          LET r == extract_feature_vectors(X_dev_processed, X_test_processed,
                                           unit.y_dev, unit.y_test,
                                           unit.groups_dev, cols, nSyn, rng)
          IN  /\ rng' = rng + SumSeq(nSyn)
              /\ IF r.raised
                 THEN /\ pc' = "aborted"
                      /\ unit' = [unit EXCEPT !.view_rows = r.view_rows]
                      /\ UNCHANGED <<stage, trace>>
                 ELSE /\ pc' = pc
                      /\ unit' = [unit EXCEPT
                             !.X_dev = r.X_dev, !.X_test = r.X_test,
                             !.y_dev = r.y_dev, !.y_test = r.y_test,
                             !.groups_dev = r.groups_dev,
                             !.X_test_frag_processed = X_test_frag_processed,
                             !.feature_idxs = r.feature_idxs,
                             !.view_rows = r.view_rows]
                      /\ stage' = "TRAIN"
                      /\ trace' = Append(trace, "EXTRACT")
    /\ UNCHANGED <<argv, disk, target, test_document, documents, authors,
                   filenames, y, processed_documents, test_indices, k, started,
                   calls, fsets, idxs, segs, found, nlp_calls>>
    /\ UNCHANGED <<accuracy, posterior_proba, file, evaluated>>

-----------------------------------------------------------------------------
(* train_model *)

n_splits == 5

\* the distinct grouping keys, in order of first appearance
DistinctKeys(groups) ==
    LET first == SelectIdx(Len(groups),
                           {j \in 1..Len(groups) :
                               \A h \in 1..(j - 1) : groups[h] # groups[j]})
    IN  [j \in 1..Len(first) |-> groups[first[j]]]

\* StratifiedGroupKFold(n_splits).split(X, y, groups): the validation fold of
\* each row; the keys are dealt to the folds in turn from offset r, so rows
\* with one key share a fold
StratifiedGroupKFold(groups, r) ==
    LET keys == DistinctKeys(groups)
        pos(g) == CHOOSE j \in 1..Len(keys) : keys[j] = g
    IN  [j \in 1..Len(groups) |-> ((pos(groups[j]) - 1 + r) % n_splits) + 1]

\* train_model(X_dev, y_dev, groups_dev, model, model_name): the folds of the
\* grid search
train_model(X_dev, y_dev, groups_dev, r) == StratifiedGroupKFold(groups_dev, r)

\* the record is written right after training, evaluate_model skipped
TrainThenReport ==
    /\ pc = "unit"
    /\ stage = "TRAIN"
    /\ Count(unit.y_dev, 0) > 0 /\ Count(unit.y_dev, 1) > 0
    /\ \E r \in 0..(n_splits - 1) :
          unit' = [unit EXCEPT !.folds =
                      train_model(unit.X_dev, unit.y_dev, unit.groups_dev, r)]
    /\ stage' = "REPORT"
    /\ trace' = Append(trace, "TRAIN")
    /\ UnitUnchanged
    /\ UNCHANGED <<accuracy, posterior_proba, file, evaluated>>

Train ==
    /\ pc = "unit"
    /\ stage = "TRAIN"
    \* GridSearchCV.fit raises on X, y and groups of different lengths
    /\ Len(unit.X_dev.rows) = Len(unit.y_dev)
    /\ Len(unit.y_dev) = Len(unit.groups_dev)
    \* LogisticRegression.fit raises on a training set of one class
    /\ Count(unit.y_dev, 0) > 0 /\ Count(unit.y_dev, 1) > 0
    /\ \E r \in 0..(n_splits - 1) :
          unit' = [unit EXCEPT !.folds =
                      train_model(unit.X_dev, unit.y_dev, unit.groups_dev, r)]
    /\ stage' = "EVALUATE"
    /\ trace' = Append(trace, "TRAIN")
    /\ UnitUnchanged
    /\ UNCHANGED <<accuracy, posterior_proba, file, evaluated>>

-----------------------------------------------------------------------------
(* evaluate_model.  Probabilities are in tenths; a posterior is kept as    *)
(* twice its value, so that the median of an even number of rows is an     *)
(* integer; an accuracy is <<correct rows, rows>>.                         *)

ProbRows == {<<3, 7>>, <<8, 2>>, <<1, 9>>}

\* clf.predict: the class of the larger probability
predict(prob) == IF prob[2] > prob[1] THEN 1 ELSE 0

RECURSIVE Insert(_, _)
Insert(sorted, x) ==
    IF sorted = <<>> THEN <<x>>
    ELSE IF x <= sorted[1] THEN <<x>> \o sorted
    ELSE <<sorted[1]>> \o Insert(Tail(sorted), x)

RECURSIVE Sort(_)
Sort(s) == IF s = <<>> THEN <<>> ELSE Insert(Sort(Tail(s)), s[1])

\* twice np.median(s), s not empty
Median2(s) ==
    LET t == Sort(s)
        n == Len(t)
    IN  IF n % 2 = 1 THEN 2 * t[(n + 1) \div 2]
        ELSE t[n \div 2] + t[(n \div 2) + 1]

evaluate_model(probabilities, X_test, y_test) ==
    LET rows == Len(X_test.rows)
        y_true == Repeat(y_test, rows)
        y_pred == [j \in 1..rows |-> predict(probabilities[j])]
    IN  [accuracy |->
             <<Cardinality({j \in 1..rows : y_true[j] = y_pred[j]}), rows>>,
         posterior_proba |->
             Median2([j \in 1..rows |-> probabilities[j][y_pred[j] + 1]])]

Evaluate ==
    /\ pc = "unit"
    /\ stage = "EVALUATE"
    \* accuracy_score raises on vectors of different lengths, np.median of
    \* no rows is not a number
    /\ Len(unit.X_test.rows) > 0
    /\ Len(Repeat(unit.y_test, Len(unit.X_test.rows))) = Len(unit.X_test.rows)
    /\ \E probabilities \in [1..Len(unit.X_test.rows) -> ProbRows] :
          LET r == evaluate_model(probabilities, unit.X_test, unit.y_test)
          IN  /\ accuracy' = r.accuracy
              /\ posterior_proba' = r.posterior_proba
              /\ unit' = [unit EXCEPT !.acc = r.accuracy,
                                       !.posterior_proba = r.posterior_proba,
                                       !.folds = <<>>]
              /\ evaluated' = Append(evaluated,
                                     [i |-> unit.i, accuracy |-> r.accuracy,
                                      posterior_proba |-> r.posterior_proba])
    /\ stage' = "REPORT"
    /\ trace' = Append(trace, "EVALUATE")
    /\ UnitUnchanged
    /\ UNCHANGED file

-----------------------------------------------------------------------------
(* save_results.  The file is its rows; it is opened for appending, so     *)
(* f.tell() is 0 exactly when the file holds nothing.                      *)

HeaderRow == [header |-> TRUE, cells |-> <<>>]

DataRow(tgt, doc_name, acc, proba, features) ==
    [header |-> FALSE,
     cells  |-> [target_author |-> tgt, document_test |-> DropLast(doc_name, 2),
                 accuracy |-> acc, proba |-> proba, features |-> features]]

Tell(f) == Len(f)

\* the header is written by every call
save_results_header_always(f, row) == f \o <<HeaderRow, row>>

\* the file after save_results wrote row
save_results(f, row) ==
    IF Tell(f) = 0 THEN <<HeaderRow, row>> ELSE Append(f, row)

Keys(d) == [j \in 1..Len(d) |-> d[j].key]

Report ==
    /\ pc = "unit"
    /\ stage = "REPORT"
    /\ LET row == DataRow(target, DropLast(unit.groups_test[1], 2), unit.acc,
                          unit.posterior_proba, Keys(unit.feature_idxs))
       IN  IF save_res
           THEN /\ file' = save_results(file, row)
                /\ calls' = Append(calls, row)
           ELSE UNCHANGED <<file, calls>>
    /\ trace' = Append(trace, "REPORT")
    /\ stage' = "IDLE"
    /\ unit' = NoUnit
    /\ pc' = "loop"
    /\ k' = k + 1
    /\ UNCHANGED <<argv, disk, target, test_document, documents, authors,
                   filenames, y, processed_documents, test_indices, accuracy,
                   posterior_proba, started, evaluated, fsets, idxs,
                   segs, found, nlp_calls, rng>>

\* an exception in a stage that calls a collaborator (the segmenter, the
\* annotation lookup, the views, the scorer, the file): nothing in
\* _process_single_document, run or main catches it
Raise ==
    /\ pc = "unit"
    /\ stage \in {"SEGMENT", "EXTRACT", "TRAIN", "EVALUATE", "REPORT"}
    /\ pc' = "aborted"
    /\ UNCHANGED <<argv, disk, target, test_document, documents, authors,
                   filenames, y, processed_documents, test_indices, k, stage,
                   unit, accuracy, posterior_proba, file, started, trace,
                   evaluated, calls, fsets, idxs,
                   segs, found, nlp_calls, rng>>

-----------------------------------------------------------------------------
(* The run of main() *)

\* the state of a fresh process: AuthorshipVerification.__init__, nothing run
Fresh ==
    /\ pc = "main"
    /\ target = <<>>
    /\ test_document = <<>>
    /\ documents = <<>>
    /\ authors = <<>>
    /\ filenames = <<>>
    /\ y = <<>>
    /\ processed_documents = <<>>
    /\ test_indices = <<>>
    /\ k = 1
    /\ stage = "IDLE"
    /\ unit = NoUnit
    /\ accuracy = <<0, 1>>
    /\ posterior_proba = 0
    /\ file = <<>>
    /\ started = <<>>
    /\ trace = <<>>
    /\ evaluated = <<>>
    /\ calls = <<>>
    /\ fsets = <<>>
    /\ idxs = <<>>
    /\ segs = NoSegs
    /\ found = NoFound
    /\ nlp_calls = 0
    /\ rng = Unseeded

Init ==
    /\ argv \in [target : TargetArgs, test_document : DocumentArgs]
    /\ disk \in Disks
    /\ Fresh

Next ==
    \/ Main
    \/ LoopStep
    \/ Split
    \/ Segment
    \/ Extract
    \/ Train
    \/ Evaluate
    \/ Report
    \/ Raise
    \/ RunEnd

Spec == Init /\ [][Next]_vars

-----------------------------------------------------------------------------
(* save_results called any number of times on one destination, within a    *)
(* run and across runs of the program                                      *)

SaveRows ==
    { DataRow(Dante, <<"D", "-", "e">> \o Suffix0, acc, 14, Vectorizers) :
          acc \in {<<0, 1>>, <<1, 1>>} }
    \cup { DataRow(Guido, <<"G", "-", "e">> \o Suffix0, <<1, 1>>, 18, Vectorizers) }

InitSave ==
    /\ Fresh
    /\ argv = [target |-> Absent, test_document |-> Absent]
    /\ disk = <<>>

SaveCall ==
    /\ Len(calls) < MaxCalls
    /\ \E row \in SaveRows :
          /\ file' = save_results(file, row)
          /\ calls' = Append(calls, row)
    /\ UNCHANGED <<runVars, idxVars, segVars>>

\* the program ends and is started again; the file stays
NewRun ==
    /\ k < MaxRuns
    /\ k' = k + 1
    /\ UNCHANGED <<argv, disk, pc, target, test_document, documents, authors,
                   filenames, y, processed_documents, test_indices, stage, unit,
                   accuracy, posterior_proba, file, started, trace, evaluated,
                   calls, fsets, idxs, segs, found, nlp_calls, rng>>

NextSave ==
    \/ SaveCall
    \/ NewRun

SpecSave == InitSave /\ [][NextSave]_vars

-----------------------------------------------------------------------------
(* _compute_feature_set_idx on any list of views and per-view matrices *)

ColumnChoices == {Flat} \cup 0..MaxCols

InitIdx ==
    /\ Fresh
    /\ argv = [target |-> Absent, test_document |-> Absent]
    /\ disk = <<>>

ChooseFeatureSets ==
    /\ pc = "main"
    /\ \E n \in 0..Len(Vectorizers) :
          \E cols \in [1..n -> ColumnChoices] :
              fsets' = [v \in 1..n |-> Shape(IdxRows, cols[v])]
    /\ pc' = "idx"
    /\ UNCHANGED <<argv, disk, target, test_document, documents, authors,
                   filenames, y, processed_documents, test_indices, k, stage,
                   unit, accuracy, posterior_proba, file, started, trace,
                   evaluated, calls, idxs, segs, found, nlp_calls, rng>>

ComputeIdx ==
    /\ pc = "idx"
    /\ idxs' = _compute_feature_set_idx(SubSeq(Vectorizers, 1, Len(fsets)), fsets)
    /\ pc' = "idx_done"
    /\ UNCHANGED <<argv, disk, target, test_document, documents, authors,
                   filenames, y, processed_documents, test_indices, k, stage,
                   unit, accuracy, posterior_proba, file, started, trace,
                   evaluated, calls, fsets, segs, found, nlp_calls, rng>>

NextIdx ==
    \/ ChooseFeatureSets
    \/ ComputeIdx

SpecIdx == InitIdx /\ [][NextIdx]_vars

-----------------------------------------------------------------------------
(* get_processed_segments on any store and any parallel lists of segments  *)
(* and group ids that segmentation derives from documents of the store     *)

SegDocs ==
    { Doc(<<"D", "-", "e">>, Short),
      Doc(<<"G", "-", "e">>, Long),
      Doc(<<"D", "-", "e", "_", "0">>, Long),
      Doc(<<"G", "_", "0", "e">>, Long) }

\* fragments as the segmenter hands them over: exact sentences, a sentence
\* with one or two characters too many, a sentence of no document
FragmentPool ==
    { <<"a", ".">>, <<"b", ".">>, <<"b", ".", "x">>, <<"b", ".", "x", "x">>,
      <<"c", ".">> }

\* the rows segmentation can derive from document d: the whole document,
\* or a fragment with the group id of one of its pieces
SegRows(d) ==
    { [id |-> d.key, segment |-> d.text,
       group |-> d.key \o Suffix0 \o Suffix0] }
    \cup { [id |-> d.key, segment |-> f,
            group |-> d.key \o Suffix0 \o <<"_", Digit(p)>>] :
                f \in FragmentPool, p \in 1..2 }

InitSeg ==
    /\ Fresh
    /\ argv = [target |-> Absent, test_document |-> Absent]
    /\ disk = <<>>

ChooseSegments ==
    /\ pc = "main"
    /\ \E docs \in (SUBSET SegDocs) \ {{}} :
          \E n \in 0..MaxSegs :
              \E rows \in [1..n -> UNION {SegRows(d) : d \in docs}] :
                  segs' = [processed_docs |->
                               [id \in {d.key : d \in docs} |->
                                   CHOOSE d \in docs : d.key = id],
                           X      |-> [j \in 1..n |-> rows[j].segment],
                           groups |-> [j \in 1..n |-> rows[j].group],
                           ids    |-> [j \in 1..n |-> rows[j].id]]
    /\ pc' = "segs"
    /\ UNCHANGED <<argv, disk, target, test_document, documents, authors,
                   filenames, y, processed_documents, test_indices, k, stage,
                   unit, accuracy, posterior_proba, file, started, trace,
                   evaluated, calls, fsets, idxs, found, nlp_calls, rng>>

ProcessSegments ==
    /\ pc = "segs"
    /\ found' = get_processed_segments(segs.processed_docs, segs.X, segs.groups)
    /\ pc' = IF found'.raised THEN "segs_raised" ELSE "segs_done"
    /\ UNCHANGED <<argv, disk, target, test_document, documents, authors,
                   filenames, y, processed_documents, test_indices, k, stage,
                   unit, accuracy, posterior_proba, file, started, trace,
                   evaluated, calls, fsets, idxs, segs, nlp_calls, rng>>

NextSeg ==
    \/ ChooseSegments
    \/ ProcessSegments

SpecSeg == InitSeg /\ [][NextSeg]_vars

-----------------------------------------------------------------------------
(* Properties *)

SplitDone == pc = "unit" /\ stage = "SEGMENT"

\* position j of a pool with position i removed
Skip(i, j) == IF j < i THEN j ELSE j + 1

\* C1: loo_split(i) leaves a training pool of n-1 documents, labels and group
\* ids that are the original sequences with only position i removed, order
\* kept; the test set is the document, label and group id at position i; no
\* training group id is the group id of document i; also when another
\* document has the same text.
C1_SplitByIndex ==
    SplitDone =>
        LET i == unit.i
            n == Len(documents)
        IN  /\ Len(unit.X_dev) = n - 1
            /\ Len(unit.y_dev) = n - 1
            /\ Len(unit.groups_dev) = n - 1
            /\ \A j \in 1..(n - 1) :
                   /\ unit.X_dev[j] = documents[Skip(i, j)]
                   /\ unit.y_dev[j] = y[Skip(i, j)]
                   /\ unit.groups_dev[j] = filenames[Skip(i, j)]
            /\ unit.X_test = <<documents[i]>>
            /\ unit.y_test = <<y[i]>>
            /\ unit.groups_test = <<filenames[i]>>
            /\ \A j \in 1..(n - 1) : unit.groups_dev[j] # filenames[i]

\* the held-out document is the last of three and an earlier one has its text
C1_Witness ==
    /\ SplitDone
    /\ Len(documents) = 3
    /\ unit.i = 3
    /\ documents[1] = documents[3]
    /\ y[1] # y[2]

TargetDocs == {j \in 1..Len(authors) : authors[j] = target}

NoRepeats(s) == \A a, b \in 1..Len(s) : s[a] = s[b] => a = b

\* C2: with an empty selector the units run are the documents of the target
\* author, each once and no other; a run that completes has run them all and
\* each has written one record.
C2_EmptySelector ==
    (pc # "main" /\ test_document = <<>>) =>
        /\ Range(started) \subseteq TargetDocs
        /\ NoRepeats(started)
        /\ pc = "done" =>
               /\ Range(started) = TargetDocs
               /\ Len(calls) = Len(started)
               /\ \A j \in 1..Len(started) :
                      calls[j].cells.document_test =
                          DropLast(filenames[started[j]], 2)
               /\ Len(file) = IF started = <<>> THEN 0 ELSE Len(started) + 1

C2_Witness ==
    /\ pc = "done"
    /\ test_document = <<>>
    /\ Len(started) = 2
    /\ Len(documents) = 3
    /\ Len(calls) = 2

\* the documents whose id is the selector
SelectedById == {j \in 1..Len(filenames) : filenames[j] = test_document \o Suffix0}

\* C3: when the selector is the id of a document of the corpus, the run
\* executes exactly one unit, holding out that document.
C3_SingleDocument ==
    (pc = "done" /\ test_document # <<>> /\ SelectedById # {}) =>
        /\ Len(started) = 1
        /\ started[1] \in SelectedById

\* the selector is contained in no file name of the corpus
Unresolvable ==
    /\ pc # "main"
    /\ test_document # <<>>
    /\ \A j \in 1..Len(filenames) : ~IsSubstring(test_document, filenames[j])

\* C4: with a selector that matches no document the run never completes
\* normally; it ends in an error before any unit starts.
C4_UnresolvableIsFatal == Unresolvable => (pc # "done" /\ started = <<>>)

RunEnded == pc \in {"done", "aborted"}

\* C5: a unit that fails does not stop the run: when the run has ended every
\* held-out unit was executed, and every unit that did not fail has its record.
C5_FailureAbortsOnlyUnit ==
    RunEnded => Len(started) = Len(test_indices)

StageOrder == <<"SPLIT", "SEGMENT", "EXTRACT", "TRAIN", "EVALUATE", "REPORT">>

\* C6: a unit goes through SPLIT, SEGMENT, EXTRACT, TRAIN, EVALUATE, REPORT in
\* this order, each once and none skipped, and a record is written only
\* after EVALUATE of the same unit, with the accuracy and posterior it produced.
C6_StageOrder ==
    /\ trace = SubSeq(StageOrder, 1, Len(trace))
    /\ pc = "unit" =>
           /\ Len(trace) < Len(StageOrder)
           /\ stage = StageOrder[Len(trace) + 1]
    /\ Len(calls) <= Len(evaluated)
    /\ \A j \in 1..Len(calls) :
           /\ calls[j].cells.accuracy = evaluated[j].accuracy
           /\ calls[j].cells.proba = evaluated[j].posterior_proba
           /\ calls[j].cells.document_test =
                  DropLast(filenames[evaluated[j].i], 2)
           /\ evaluated[j].i = started[j]

C6_Witness ==
    /\ pc = "loop"
    /\ trace = StageOrder
    /\ Len(calls) = 2
    /\ calls[1].cells.accuracy # calls[2].cells.accuracy

\* C7: after any sequence of save_results calls on a destination that started
\* absent or empty, the file is one header row followed by one data row per
\* call, in call order.
C7_OneHeader ==
    IF calls = <<>> THEN file = <<>>
    ELSE /\ Len(file) = Len(calls) + 1
         /\ file[1].header
         /\ \A j \in 1..Len(calls) :
                /\ ~file[j + 1].header
                /\ file[j + 1] = calls[j]

C7_Witness ==
    /\ k = MaxRuns
    /\ Len(calls) >= 3
    /\ calls[1] # calls[2]

InRange(c, r) == r[1] <= c /\ c < r[2]

\* C8: the column-range index has one half-open range per view, in
\* registration order; the first starts at 0, each starts where the previous
\* ends, the ranges are pairwise disjoint, and the last ends at the column
\* count of the stacked matrix (a one-dimensional matrix is one column).
C8_RangesPartition ==
    pc = "idx_done" =>
        LET n == Len(fsets)
            total == _hstack(fsets)
        IN  /\ Len(idxs) = n
            /\ \A j \in 1..n :
                   /\ idxs[j].key = Vectorizers[j]
                   /\ idxs[j].val[1] <= idxs[j].val[2]
                   /\ idxs[j].val[1] = IF j = 1 THEN 0 ELSE idxs[j - 1].val[2]
                   /\ Len(fsets[j]) = 1 => idxs[j].val[2] = idxs[j].val[1] + 1
            /\ \A a, b \in 1..n :
                   a # b => \A c \in 0..total :
                               ~(InRange(c, idxs[a].val) /\ InRange(c, idxs[b].val))
            /\ \A c \in 0..(total - 1) :
                   \E j \in 1..n : InRange(c, idxs[j].val)
            /\ n > 0 => idxs[n].val[2] = total

C8_Witness ==
    /\ pc = "idx_done"
    /\ Len(fsets) = Len(Vectorizers)
    /\ Len(fsets[2]) = 1
    /\ fsets[3] = <<IdxRows, 0>>
    /\ idxs[5].val = <<3, 5>>

TrainDone == pc = "unit" /\ stage = "EVALUATE"

\* C9: the grouping key of each training row is its source document, so in
\* every fold no source document has rows both in the validation portion
\* and in the training portion.
C9_GroupsAreDocuments ==
    TrainDone =>
        \A a, b \in 1..Len(unit.X_dev.rows) :
            LET ra == unit.X_dev.rows[a]
                rb == unit.X_dev.rows[b]
            IN  (ra.kind # "syn" /\ rb.kind # "syn" /\ ra.key = rb.key) =>
                    /\ unit.groups_dev[a] = unit.groups_dev[b]
                    /\ unit.folds[a] = unit.folds[b]

\* C10: the rows evaluate_model predicts on are the fragments of the held-out
\* document, one row per fragment.
C10_EvaluateOnFragments ==
    (pc = "unit" /\ stage = "REPORT" /\ unit.X_test_frag_processed # <<>>) =>
        unit.X_test.rows = unit.X_test_frag_processed

SegsReturned == pc = "segs_done"

\* the positions of segs.X that hold a fragment, not a whole document
FragmentPositions ==
    {j \in 1..Len(segs.groups) : ~EndsWith(segs.groups[j], WholeSuffix)}

\* the processed document get_processed_segments looks position j up in
Parent(j) == segs.processed_docs[GroupKey(segs.groups[j])]

\* C11: for parallel lists of fragments and group ids, the list that
\* get_processed_segments returns has the length and the order of its input:
\* position j holds the processed document or the span of input j, and None
\* where the fragment is not located in its parent's annotation; no entry is
\* dropped or shifted, and the count reported is the number of None entries.
C11_NonePlaceholders ==
    SegsReturned =>
        LET n == Len(segs.X)
            out == found.processed_X
        IN  /\ Len(out) = n
            /\ \A j \in 1..n :
                   IF j \in FragmentPositions
                   THEN out[j] = find_segment(segs.X[j], Parent(j))
                   ELSE out[j] = Whole(Parent(j))
            /\ found.none_count =
                   Cardinality({j \in 1..Len(out) : out[j] = None})

\* a fragment that is not located, followed by one that is
C11_Witness ==
    /\ SegsReturned
    /\ Len(segs.X) = 2
    /\ found.processed_X[1] = None
    /\ found.processed_X[2].kind = "span"
    /\ found.none_count = 1

\* the number of the fragment at position j among the fragments
FragmentRank(j) == Cardinality({h \in FragmentPositions : h <= j})

\* a lookup over characters r[1] .. r[2] - 1 of a text of len characters
\* yields a span
Yields(r, len) == 0 <= r[1] /\ r[1] < len /\ 0 <= r[2] - 1 /\ r[2] - 1 < len

\* C15: find_segment makes one lookup over [start, start + len(fragment)) and,
\* only when that yields no span, exactly one more over
\* [start, start + len(fragment) - 1); it returns the span of the first
\* lookup when there is one, otherwise the result of the retry; a fragment
\* that ends one character after the end of the text is resolved to a span,
\* and when both lookups fail the result is None.
C15_OneRetry ==
    SegsReturned =>
        \A j \in FragmentPositions :
            LET parent == Parent(j)
                len == Len(parent.text)
                start == Find(parent.text, FirstSentence(segs.X[j]))
                first == <<start, start + Len(segs.X[j])>>
                retry == <<start, start + Len(segs.X[j]) - 1>>
                made == found.lookups[FragmentRank(j)]
                res == found.processed_X[j]
            IN  /\ made = IF Yields(first, len) THEN <<first>>
                          ELSE <<first, retry>>
                /\ res = IF Yields(first, len)
                         THEN Span(parent, first[1], first[2])
                         ELSE IF Yields(retry, len)
                         THEN Span(parent, retry[1], retry[2])
                         ELSE None
                /\ (start >= 0 /\ first[2] = len + 1) =>
                       (res.kind = "span" /\ res.start = start /\ res.end = len)

\* a fragment one character longer than what is left of the text, resolved by
\* the retry, next to one that both lookups miss
C15_Witness ==
    /\ SegsReturned
    /\ Len(found.lookups) = 2
    /\ Len(found.lookups[1]) = 2
    /\ found.processed_X[1].kind = "span"
    /\ Len(found.lookups[2]) = 2
    /\ found.processed_X[2] = None

\* C16: the key get_processed_segments looks up for a group id is the id of
\* the document the group id was derived from, for whole documents and for
\* fragments, also when the id contains '_0'; so the call meets no missing
\* key.
C16_KeyIsDocumentId ==
    pc \in {"segs_done", "segs_raised"} =>
        /\ \A j \in 1..Len(segs.groups) :
               GroupKey(segs.groups[j]) = segs.ids[j]
        /\ ~found.raised

\* the training matrices of the views do not have one row count
ViewsDiffer ==
    \E a, b \in 1..Len(unit.view_rows) : unit.view_rows[a] # unit.view_rows[b]

\* C12: a unit is past EXTRACT only with a training matrix, a label vector
\* and a group vector of one length, the length every view produced (nothing
\* was cut to fit); when the views' row counts differ at the end of EXTRACT
\* the run is aborted there.
C12_MismatchIsFatal ==
    /\ (pc = "unit" /\ stage \in {"TRAIN", "EVALUATE", "REPORT"}) =>
           /\ Len(unit.X_dev.rows) = Len(unit.y_dev)
           /\ Len(unit.y_dev) = Len(unit.groups_dev)
           /\ \A v \in 1..Len(unit.view_rows) :
                  unit.view_rows[v] = Len(unit.X_dev.rows)
    /\ ViewsDiffer => (pc = "aborted" /\ stage = "EXTRACT")

\* the last view was oversampled and an earlier one was not: labels and
\* groups would be one longer than that view's rows
C12_Witness ==
    /\ pc = "aborted"
    /\ stage = "EXTRACT"
    /\ ViewsDiffer
    /\ unit.view_rows[Len(Vectorizers)] = unit.view_rows[1] + 1
    /\ Len(started) = 1
    /\ Len(test_indices) = 2

\* C13: in a run the documents are annotated once, before the first unit
\* starts; no unit calls the annotation service, and at every moment of every
\* unit the store is the one built from the documents of the run.
C13_AnnotatedOnce ==
    /\ nlp_calls <= 1
    /\ started # <<>> => nlp_calls = 1
    /\ nlp_calls = 1 =>
           processed_documents = get_processed_documents(documents, filenames)

\* the second unit has read the store in EXTRACT
C13_Witness ==
    /\ pc = "unit"
    /\ stage = "TRAIN"
    /\ Len(started) = 2
    /\ Len(calls) = 1
    /\ nlp_calls = 1

\* what run computes before the loop, from the command line and the corpus
RunInputs ==
    LET cfg == from_args(argv)
        ds == load_dataset(disk, cfg.test_document)
        names == [j \in 1..Len(ds.filenames) |-> ds.filenames[j] \o Suffix0]
    IN  [documents |-> ds.documents,
         filenames |-> names,
         y         |-> Labels(ds.authors, names, cfg.target),
         processed_documents |-> get_processed_documents(ds.documents, names)]

\* the locals of unit i after SEGMENT, when nothing ran before it
AloneSegmented(i) ==
    LET in == RunInputs
        sp == loo_split(i, in.documents, in.y, in.documents[i], in.y[i],
                        in.filenames)
    IN  segment_data(sp.X_dev, sp.X_test, sp.y_dev, sp.y_test, sp.groups_dev,
                     sp.groups_test)

\* what EXTRACT can return to unit i when nothing ran before it and the
\* oversampling of each view adds nSyn rows: the generator is in the state
\* np.random.seed left it in
AloneExtracted(i, nSyn) ==
    LET in == RunInputs
        sg == AloneSegmented(i)
        pdev == get_processed_segments(in.processed_documents, sg.X_dev,
                                       sg.groups_dev).processed_X
        ptest == get_processed_segments(in.processed_documents, sg.X_test,
                                        sg.groups_test).processed_X
    IN  { extract_feature_vectors(pdev, ptest, sg.y_dev, sg.y_test,
                                  sg.groups_dev, cols, nSyn, random_state) :
              cols \in ColumnProfiles }

\* the records unit i can write when nothing ran before it
AloneRecords(i) ==
    LET sg == AloneSegmented(i)
    IN  { DataRow(from_args(argv).target, DropLast(sg.groups_test[1], 2),
                  evaluate_model(probabilities, [rows |-> r.X_test.rows],
                                 r.y_test).accuracy,
                  evaluate_model(probabilities, [rows |-> r.X_test.rows],
                                 r.y_test).posterior_proba,
                  Keys(r.feature_idxs)) :
              r \in {x \in UNION {AloneExtracted(i, nSyn) :
                                       nSyn \in SynChoices(sg.y_dev)} :
                          ~x.raised},
              probabilities \in [1..Len(sg.X_test) -> ProbRows] }

\* C14: whatever units ran before it, a unit starts from fresh locals and a
\* freshly seeded generator, reads the inputs run computed before the loop,
\* goes through the states it goes through when it runs alone, and, when it
\* returns, has written a record it can write when it runs alone.
C14_UnitsIndependent ==
    /\ pc = "unit" =>
           LET i == unit.i
               sg == AloneSegmented(i)
           IN  /\ i = started[Len(started)]
               /\ documents = RunInputs.documents
               /\ filenames = RunInputs.filenames
               /\ y = RunInputs.y
               /\ processed_documents = RunInputs.processed_documents
               /\ stage = "SPLIT" =>
                      (unit = [NoUnit EXCEPT !.i = i] /\ rng = random_state)
               /\ stage = "EXTRACT" =>
                      /\ rng = random_state
                      /\ unit.X_dev = sg.X_dev
                      /\ unit.y_dev = sg.y_dev
                      /\ unit.groups_dev = sg.groups_dev
                      /\ unit.X_test = sg.X_test
                      /\ unit.y_test = sg.y_test
                      /\ unit.groups_test = sg.groups_test
                      /\ unit.X_test_frag = sg.X_test_frag
                      /\ unit.groups_test_frag = sg.groups_test_frag
               /\ stage \in {"TRAIN", "EVALUATE", "REPORT"} =>
                      LET nSyn == [v \in 1..Len(Vectorizers) |->
                                      unit.view_rows[v] - Len(sg.X_dev)]
                      IN  /\ nSyn \in SynChoices(sg.y_dev)
                          /\ \E r \in AloneExtracted(i, nSyn) :
                                 /\ ~r.raised
                                 /\ unit.view_rows = r.view_rows
                                 /\ unit.X_dev = r.X_dev
                                 /\ unit.y_dev = r.y_dev
                                 /\ unit.groups_dev = r.groups_dev
                                 /\ unit.X_test = r.X_test
                                 /\ unit.y_test = r.y_test
                                 /\ unit.feature_idxs = r.feature_idxs
    /\ (pc = "loop" /\ calls # <<>>) =>
           calls[Len(calls)] \in AloneRecords(started[Len(calls)])

\* the second unit of a run, past its oversampling, after a first unit that
\* left its accuracy in the harness
C14_Witness ==
    /\ pc = "unit"
    /\ stage = "TRAIN"
    /\ Len(started) = 2
    /\ Len(calls) = 1
    /\ accuracy = <<1, 1>>
    /\ rng > random_state
    /\ \E j \in 1..Len(unit.X_dev.rows) : unit.X_dev.rows[j].kind = "syn"

====
